---- MODULE Spec2Model ----
(***************************************************************************)
(* State-machine model of the Z180 mini-ITX emulator core                  *)
(* (src/wd17xx.h): the physical bus decode, the 82C55 PPI with its SD      *)
(* chip-select recalculation, the RETI detector in mem_read and the        *)
(* main execution loop.                                                    *)
(*                                                                         *)
(* The CPU engine, the Z180 I/O controller (MMU, DMA, timers) and the      *)
(* device engines are external: the values they hand back (translated      *)
(* address, M1 flag, cycles used, IFF1/IFF2) are chosen with \E from       *)
(* small sets.  The callbacks the CPU engine makes while it executes an    *)
(* instruction (mem_read, ppi_write, ...) are the actions of the bus       *)
(* specifications; the loop around Z180Execute is the scheduler            *)
(* specification.                                                          *)
(***************************************************************************)
EXTENDS Integers, Sequences, FiniteSets, TLC

VARIABLES
    ram,            \* static uint8_t ram[1024 * 1024], at the sampled cells
    rom,            \* static uint8_t rom[512 * 1024], at the sampled offsets
    port_a, port_b, port_c, port_ctl,   \* 82C55 latches
    old_cs,         \* static unsigned old_cs in ppi_recalc
    sdcard,         \* sdcard != NULL
    rstate,         \* static uint8_t rstate in mem_read
    live_irq,       \* static uint8_t live_irq
    int_recalc,     \* static uint8_t int_recalc
    IFF,            \* <<cpu_z180.IFF1, cpu_z180.IFF2>>
    fast,           \* static uint8_t fast
    emulator_done,  \* volatile int emulator_done
    pc,             \* position of main() in its loop
    i, j,           \* loop counters of main()
    states,         \* int states of main()
    obs,            \* the last bus/port operation and what it returned
    sd_ev,          \* SD chip-select events fired by the last operation
    cs_low,         \* the SD chip-select line is asserted (last event: lower)
    reti_ev,        \* number of reti_event() calls made by the last operation
    hist,           \* the last two mem_read calls
    shadow,         \* per RAM cell: the value last written while RAM was mapped
    step,           \* the last iteration of the inner while loop
    cnt,            \* scheduler event counters
    sig_at,         \* where the loop was when the first signal arrived
    trace,          \* static int trace
    ide,            \* static uint8_t ide
    io,             \* the last port request made through io_read / io_write
    owed,           \* a re-poll is owed since a recalc_interrupts() call
    svc,            \* what the last recalc service step did
    released,       \* the devices released after the loop
    acct            \* cycle accounting of the quanta

busVars   == <<ram, rom, shadow>>
ppiVars   == <<port_a, port_b, port_c, port_ctl, old_cs, sd_ev, cs_low>>
retiVars  == <<rstate, reti_ev, hist>>
irqVars   == <<live_irq, int_recalc, IFF, owed>>
schedVars == <<emulator_done, pc, i, j, states, step, cnt, sig_at, svc,
               released, acct>>
ioVars    == <<trace, ide, io>>
vars == <<ram, rom, port_a, port_b, port_c, port_ctl, old_cs, cs_low, sdcard,
          rstate,
          live_irq, int_recalc, IFF, fast, emulator_done, pc, i, j, states,
          obs, sd_ev, reti_ev, hist, shadow, step, cnt, sig_at,
          trace, ide, io, owed, svc, released, acct>>

----------------------------------------------------------------------------
(* Bit arithmetic on non-negative integers: x & (1 << n) is non-zero iff   *)
(* Bit(x, n) = 1, and x & (2^n - 1) is x % 2^n.                            *)

Pow2(n) == 2 ^ n

Bit(v, n) == (v \div Pow2(n)) % 2

LowBits(v, n) == v % Pow2(n)

----------------------------------------------------------------------------
(* Bounds: the sampled addresses, bytes and images.                        *)

\* Physical addresses the bus actions are driven with: the first and last
\* byte of each 256 KiB quarter boundary that the decode distinguishes.
BaseAddrs == {0, 262144, 524287}          \* 0x00000 0x40000 0x7FFFF
ExtAddrs  == {524288, 1048575}            \* 0x80000 0xFFFFF
Addrs     == BaseAddrs \cup ExtAddrs

RamCells == Addrs
RomOffs  == {0, 262143, 262144, 524287}   \* 0x00000 0x3FFFF 0x40000 0x7FFFF

\* Bytes written by the bus write actions.
WriteBytes == {0, 255}

\* Loaded ROM images and initial (pseudo-random) RAM images.
RomImages ==
    { (0 :> 237) @@ (262143 :> 77) @@ (262144 :> 221) @@ (524287 :> 0),
      (0 :> 195) @@ (262143 :> 255) @@ (262144 :> 118) @@ (524287 :> 237) }

RamImages ==
    { (0 :> 203) @@ (262144 :> 253) @@ (524287 :> 77) @@ (524288 :> 237)
         @@ (1048575 :> 77),
      (0 :> 18) @@ (262144 :> 237) @@ (524287 :> 52) @@ (524288 :> 255)
         @@ (1048575 :> 86) }

\* Writes made to the PPI, as <<sub-address, value>>: data bytes for ports
\* A and B, port C bytes whose low three bits are 0, 3, 5 and 7, the
\* sixteen bit set/reset commands 0x00..0x0F (and one with the unused
\* bits 6:4 set) and two mode words for the control address.
PpiBitCmds == (0 .. 15) \cup {121}         \* 0x79: bit 4 := 1, bits 6:4 set
PpiModes   == {128, 155}                  \* 0x80 0x9B
PpiData    == {0, 3, 5, 255}
PpiWrites  == ({0} \X {0, 255}) \cup ({1} \X {0}) \cup ({2} \X PpiData)
                 \cup ({3} \X (PpiBitCmds \cup PpiModes))

\* Port A values used to switch the bank decode: bits 3 (ROM enable) and
\* 2 (extended memory enable) in all four combinations.
BankVals == {255, 251, 247, 243}          \* 0xFF 0xFB 0xF7 0xF3

----------------------------------------------------------------------------
(* Bus & memory: z180_phys_read / z180_phys_write.                         *)

z180_phys_read(addr) ==
    IF Bit(addr, 19) = 1                        \* addr & 0x80000
    THEN IF Bit(port_a, 2) = 1
         THEN ram[LowBits(addr, 20)]        \* ram[addr & 0xFFFFF]
         ELSE 255
    ELSE IF Bit(port_a, 3) = 1
         THEN rom[LowBits(addr, 18)]         \* rom[addr & 0x3FFFF]
         ELSE ram[LowBits(addr, 20)]

\* Variant: the extended half is written without testing port A bit 2.
z180_phys_write_noext(addr, val) ==
    LET a == LowBits(addr, 20) IN
    IF Bit(a, 19) = 1
    THEN [ram EXCEPT ![a] = val]
    ELSE IF Bit(port_a, 3) = 1 THEN ram ELSE [ram EXCEPT ![a] = val]

\* The RAM array after z180_phys_write(addr, val); ROM is never assigned.
z180_phys_write(addr, val) ==
    LET a == LowBits(addr, 20) IN                \* addr &= 0xFFFFF
    IF Bit(a, 19) = 1
    THEN IF Bit(port_a, 2) = 1 THEN [ram EXCEPT ![a] = val] ELSE ram
    ELSE IF Bit(port_a, 3) = 1
         THEN ram                               \* "write to ROM." diagnostic
         ELSE [ram EXCEPT ![a] = val]

\* RAM is the storage decoded at addr under the current bank register.
RamMapped(addr) ==
    IF Bit(addr, 19) = 1 THEN Bit(port_a, 2) = 1
                                ELSE Bit(port_a, 3) = 0

Observe(op, addr, val, m1) == [op |-> op, addr |-> addr, val |-> val, m1 |-> m1]

\* A physical read as made by the DMA engine or by do_mem_read0.
PhysRead(addr) ==
    /\ obs' = Observe("phys_read", addr, z180_phys_read(addr), FALSE)
    /\ sd_ev' = <<>>
    /\ reti_ev' = 0
    /\ UNCHANGED <<ram, rom, shadow, port_a, port_b, port_c, port_ctl, old_cs, cs_low,
                   sdcard, ioVars, rstate, hist, irqVars, fast, schedVars>>

\* A physical write as made by the DMA engine or by mem_write/mem_write0.
PhysWrite(addr, val) ==
    /\ ram' = z180_phys_write(addr, val)
    /\ shadow' = IF RamMapped(addr) THEN [shadow EXCEPT ![addr] = val] ELSE shadow
    /\ obs' = Observe("phys_write", addr, val, FALSE)
    /\ sd_ev' = <<>>
    /\ reti_ev' = 0
    /\ UNCHANGED <<rom, port_a, port_b, port_c, port_ctl, old_cs, cs_low,
                   sdcard, ioVars, rstate, hist, irqVars, fast, schedVars>>

----------------------------------------------------------------------------
(* 82C55: ppi_recalc, ppi_read, ppi_write.                                 *)

\* Variant: "raise" is fired for every change to a non-zero select.
ppi_recalc_raise_nonzero(c) ==
    LET new_cs == c % 8 IN
    IF sdcard /\ new_cs # old_cs
    THEN [cs |-> new_cs,
          ev |-> IF new_cs = 0 THEN <<"lower">> ELSE <<"raise">>]
    ELSE [cs |-> old_cs, ev |-> <<>>]

\* Variant: the cache old_cs is never updated.
ppi_recalc_nocache(c) ==
    LET new_cs == c % 8 IN
    IF sdcard /\ new_cs # old_cs
    THEN [cs |-> old_cs,
          ev |-> IF old_cs = 0 THEN <<"raise">>
                 ELSE IF new_cs = 0 THEN <<"lower">>
                 ELSE <<>>]
    ELSE [cs |-> old_cs, ev |-> <<>>]

\* The chip-select cache and the SD events after ppi_recalc() has run with
\* port C holding c.
ppi_recalc(c) ==
    LET new_cs == c % 8 IN
    IF sdcard /\ new_cs # old_cs
    THEN [cs |-> new_cs,
          ev |-> IF old_cs = 0 THEN <<"raise">>
                 ELSE IF new_cs = 0 THEN <<"lower">>
                 ELSE <<>>]
    ELSE [cs |-> old_cs, ev |-> <<>>]

ppi_read(addr) ==
    CASE addr = 0 -> IF Bit(port_ctl, 4) = 1 THEN 255 ELSE port_a
      [] addr = 1 -> IF Bit(port_ctl, 1) = 1 THEN 255 ELSE port_b
      [] addr = 2 ->
            LET lo == IF Bit(port_ctl, 0) = 1 THEN 15 ELSE LowBits(port_c, 4)
                hi == IF Bit(port_ctl, 3) = 1 THEN 240 ELSE port_c - LowBits(port_c, 4)
            IN  lo + hi                      \* disjoint nibbles: r |= ...
      [] addr = 3 -> port_ctl
      [] OTHER -> 255

\* The SD chip-select line after the calls in ev: sd_spi_lower_cs() asserts
\* it, sd_spi_raise_cs() releases it.
sd_cs_line(ev) ==
    IF ev = <<"lower">> THEN TRUE
    ELSE IF ev = <<"raise">> THEN FALSE
    ELSE cs_low

\* Variant: the bit index is taken from val without the shift val >>= 1.
ppi_bitcmd_noshift(c, val) ==
    LET bit == val % 2
        n   == val % 8
        cleared == c - Bit(c, n) * Pow2(n)
    IN  IF bit = 1 THEN cleared + Pow2(n) ELSE cleared

\* Port C after the bit set/reset command val (bit 7 clear) of ppi_write.
ppi_bitcmd(c, val) ==
    LET bit == val % 2
        n   == (val \div 2) % 8
        cleared == c - Bit(c, n) * Pow2(n)      \* port_c &= ~(1 << val)
    IN  IF bit = 1 THEN cleared + Pow2(n) ELSE cleared

\* The four latches after the switch statement of ppi_write.
ppi_latches(addr, val) ==
    CASE addr = 0 -> [a |-> val, b |-> port_b, c |-> port_c, ctl |-> port_ctl]
      [] addr = 1 -> [a |-> port_a, b |-> val, c |-> port_c, ctl |-> port_ctl]
      [] addr = 2 -> [a |-> port_a, b |-> port_b, c |-> val, ctl |-> port_ctl]
      [] addr = 3 ->
            IF Bit(val, 7) = 1
            THEN [a |-> port_a, b |-> port_b, c |-> port_c, ctl |-> val]
            ELSE [a |-> port_a, b |-> port_b, c |-> ppi_bitcmd(port_c, val),
                  ctl |-> port_ctl]
      [] OTHER -> [a |-> port_a, b |-> port_b, c |-> port_c, ctl |-> port_ctl]

\* ppi_write(addr, val) as called by io_write: everything but the record of
\* the port request.
ppi_write_do(addr, val) ==
    LET l == ppi_latches(addr, val)
        r == ppi_recalc(l.c)
    IN  /\ port_a' = l.a
        /\ port_b' = l.b
        /\ port_c' = l.c
        /\ port_ctl' = l.ctl
        /\ old_cs' = r.cs
        /\ sd_ev' = r.ev
        /\ cs_low' = sd_cs_line(r.ev)
        /\ obs' = Observe("ppi_write", addr, val, FALSE)
        /\ reti_ev' = 0
        /\ UNCHANGED <<busVars, sdcard, trace, ide, rstate, hist, irqVars, fast,
                       schedVars>>

ppi_write(addr, val) == ppi_write_do(addr, val) /\ UNCHANGED io

PpiRead(addr) ==
    /\ obs' = Observe("ppi_read", addr, ppi_read(addr), FALSE)
    /\ sd_ev' = <<>>
    /\ reti_ev' = 0
    /\ UNCHANGED <<busVars, port_a, port_b, port_c, port_ctl, old_cs, cs_low,
                   sdcard, ioVars, rstate, hist, irqVars, fast, schedVars>>

----------------------------------------------------------------------------
(* mem_read and the RETI detector.                                         *)

\* Variant: rstate is not reset after the 4D test.
mem_read_detect_noreset(m1, r, rs) ==
    IF m1 /\ r \in {221, 253, 203}
    THEN [rstate |-> 2, fire |-> FALSE]
    ELSE IF m1 /\ r = 237 /\ rs = 0
    THEN [rstate |-> 1, fire |-> FALSE]
    ELSE [rstate |-> rs, fire |-> (r = 77 /\ rs = 1)]

\* Variant: ED arms the detector in whatever state it is fetched.
mem_read_detect_rearm(m1, r, rs) ==
    IF m1 /\ r \in {221, 253, 203}
    THEN [rstate |-> 2, fire |-> FALSE]
    ELSE IF m1 /\ r = 237
    THEN [rstate |-> 1, fire |-> FALSE]
    ELSE [rstate |-> 0, fire |-> (r = 77 /\ rs = 1)]

\* Variant: the 4D test is made only for opcode fetches.
mem_read_detect_m1only(m1, r, rs) ==
    IF m1 /\ r \in {221, 253, 203}
    THEN [rstate |-> 2, fire |-> FALSE]
    ELSE IF m1 /\ r = 237 /\ rs = 0
    THEN [rstate |-> 1, fire |-> FALSE]
    ELSE [rstate |-> 0, fire |-> (m1 /\ r = 77 /\ rs = 1)]

\* The detector state after mem_read has seen byte r with cpu_z180.M1 = m1
\* in state rs, and whether reti_event() was called.
mem_read_detect(m1, r, rs) ==
    IF m1 /\ r \in {221, 253, 203}              \* DD FD CB
    THEN [rstate |-> 2, fire |-> FALSE]
    ELSE IF m1 /\ r = 237 /\ rs = 0             \* ED
    THEN [rstate |-> 1, fire |-> FALSE]
    ELSE [rstate |-> 0, fire |-> (r = 77 /\ rs = 1)]   \* 4D

Push2(h, e) == IF Len(h) < 2 THEN Append(h, e) ELSE <<h[2], e>>

\* Variant: reti_event() marks an interrupt as live.
mem_read_live(m1, pa) ==
    LET r == z180_phys_read(pa)
        d == mem_read_detect(m1, r, rstate)
    IN  /\ rstate' = d.rstate
        /\ reti_ev' = IF d.fire THEN 1 ELSE 0
        /\ live_irq' = IF d.fire THEN 1 ELSE live_irq
        /\ owed' = IF d.fire THEN "no" ELSE owed
        /\ hist' = Push2(hist, [val |-> r, m1 |-> m1, fired |-> d.fire,
                                rs0 |-> rstate])
        /\ obs' = Observe("mem_read", pa, r, m1)
        /\ sd_ev' = <<>>
        /\ UNCHANGED <<busVars, port_a, port_b, port_c, port_ctl, old_cs, cs_low,
                       sdcard, ioVars, int_recalc, IFF, fast, schedVars>>

\* mem_read(addr) where z180_mmu_translate returned pa and the CPU engine
\* holds M1 = m1.  reti_event() clears live_irq and polls the controller.
mem_read(m1, pa) ==
    LET r == z180_phys_read(pa)
        d == mem_read_detect(m1, r, rstate)
    IN  /\ rstate' = d.rstate
        /\ reti_ev' = IF d.fire THEN 1 ELSE 0
        /\ live_irq' = IF d.fire THEN 0 ELSE live_irq
        /\ owed' = IF d.fire THEN "no" ELSE owed
        /\ hist' = Push2(hist, [val |-> r, m1 |-> m1, fired |-> d.fire,
                                rs0 |-> rstate])
        /\ obs' = Observe("mem_read", pa, r, m1)
        /\ sd_ev' = <<>>
        /\ UNCHANGED <<busVars, port_a, port_b, port_c, port_ctl, old_cs, cs_low,
                       sdcard, ioVars, int_recalc, IFF, fast, schedVars>>

\* z80dis_byte(addr) / z80dis_byte_quiet(addr) where z180_mmu_translate
\* returned pa: do_mem_read0(addr, 1), a read of the bus that does not pass
\* through the RETI detector.
z80dis_byte(pa) ==
    /\ obs' = Observe("dis_read", pa, z180_phys_read(pa), FALSE)
    /\ sd_ev' = <<>>
    /\ reti_ev' = 0
    /\ UNCHANGED <<busVars, port_a, port_b, port_c, port_ctl, old_cs, cs_low,
                   sdcard, ioVars, rstate, hist, irqVars, fast, schedVars>>

----------------------------------------------------------------------------
(* The port dispatcher: io_read / io_write.                                *)

\* Port requests offered to the dispatcher, as <<claimed by z180_iospace,
\* 16-bit address>>, and the values written.
IoAddrs == {13, 16, 23, 112, 119, 120, 123, 128, 253, 254, 375, 378}
\*          0D  10  17   70   77   78   7B   80   FD   FE  0177 017A
IoReqs  == ({FALSE} \X IoAddrs) \cup ({TRUE} \X {16, 119})
IoVals  == {9, 128}
\* Bytes handed back by the external engines (z180_read, ide_read8,
\* fdc_read_ctrl, fdc_read_data).
ExtVals == {0}

\* The handler io_read selects for the masked address a (addr &= 0xFF).
io_read_route(a) ==
    IF a >= 16 /\ a <= 23 /\ ide = 1 THEN "ide"
    ELSE IF a >= 112 /\ a < 119 THEN "fdc"          \* addr >= 0x70 && addr < 0x77
    ELSE IF a >= 120 /\ a <= 127 THEN "ppi"
    ELSE "unknown"

\* Variant: the PPI window has no upper limit.
io_write_route_open(a) ==
    IF a >= 16 /\ a <= 23 /\ ide = 1 THEN "ide"
    ELSE IF a >= 112 /\ a < 120 THEN "fdc"
    ELSE IF a >= 120 THEN "ppi"
    ELSE IF a = 13 THEN "diag"
    ELSE IF a = 253 THEN "trace_lo"
    ELSE IF a = 254 THEN "trace_hi"
    ELSE "unknown"

\* The handler io_write selects for the masked address a.
io_write_route(a) ==
    IF a >= 16 /\ a <= 23 /\ ide = 1 THEN "ide"
    ELSE IF a >= 112 /\ a < 120 THEN "fdc"          \* addr >= 0x70 && addr < 0x78
    ELSE IF a >= 120 /\ a <= 127 THEN "ppi"
    ELSE IF a = 13 THEN "diag"
    ELSE IF a = 253 THEN "trace_lo"
    ELSE IF a = 254 THEN "trace_hi"
    ELSE "unknown"

\* fdc_read(addr) where the lib765 engine would hand back ext.
fdc_read(addr, ext) == IF addr \in {0, 1} THEN ext ELSE 120   \* val = 0x78

IoReq(rw, addr, claimed) == [rw |-> rw, port |-> addr, claimed |-> claimed]

\* io_read(addr); claimed: z180_iospace(io, addr); ext: the byte an external
\* engine returns if one is asked.
io_read(claimed, addr, ext) ==
    LET a == addr % 256
        r == io_read_route(a)
    IN  /\ obs' = IF claimed THEN Observe("z180_read", addr, ext, FALSE)
                  ELSE CASE r = "ide" -> Observe("ide_read", a % 8, ext, FALSE)
                         [] r = "fdc" -> Observe("fdc_read", a % 8,
                                                 fdc_read(a % 8, ext), FALSE)
                         [] r = "ppi" -> Observe("ppi_read", a % 4,
                                                 ppi_read(a % 4), FALSE)
                         [] OTHER -> Observe("unknown_read", a, 255, FALSE)
        /\ io' = IoReq("r", addr, claimed)
        /\ sd_ev' = <<>>
        /\ reti_ev' = 0
        /\ UNCHANGED <<busVars, port_a, port_b, port_c, port_ctl, old_cs, cs_low,
                       sdcard, trace, ide, rstate, hist, irqVars, fast,
                       schedVars>>

\* io_write(addr, val); rc: z180_write made the controller call
\* recalc_interrupts().
io_write(claimed, addr, val, rc) ==
    LET a == addr % 256
        r == io_write_route(a)
    IN  /\ io' = IoReq("w", addr, claimed)
        /\ IF claimed
           THEN /\ obs' = Observe("z180_write", addr, val, FALSE)
                /\ int_recalc' = IF rc THEN 1 ELSE int_recalc
                /\ owed' = IF rc /\ owed = "no" THEN "this" ELSE owed
                /\ sd_ev' = <<>>
                /\ reti_ev' = 0
                /\ UNCHANGED <<busVars, port_a, port_b, port_c, port_ctl,
                               old_cs, cs_low, sdcard, trace, ide, rstate, hist,
                               live_irq, IFF, fast, schedVars>>
           ELSE IF r = "ppi"
           THEN ppi_write_do(a % 4, val)
           ELSE /\ obs' = CASE r = "ide" -> Observe("ide_write", a % 8, val, FALSE)
                            [] r = "fdc" -> Observe("fdc_write", a % 8, val, FALSE)
                            [] r = "diag" -> Observe("diag_write", a, val, FALSE)
                            [] r = "trace_lo" -> Observe("trace_set", a, val, FALSE)
                            [] r = "trace_hi" -> Observe("trace_set", a, val, FALSE)
                            [] OTHER -> Observe("unknown_write", a, val, FALSE)
                /\ trace' = CASE r = "trace_lo" ->      \* trace &= 0xFF00; |= val
                                   ((trace \div 256) % 256) * 256 + val
                              [] r = "trace_hi" ->      \* trace &= 0xFF; |= val << 8
                                   (trace % 256) + val * 256
                              [] OTHER -> trace
                /\ sd_ev' = <<>>
                /\ reti_ev' = 0
                /\ UNCHANGED <<busVars, port_a, port_b, port_c, port_ctl,
                               old_cs, cs_low, sdcard, ide, rstate, hist, irqVars,
                               fast, schedVars>>

----------------------------------------------------------------------------
(* The execution loop of main().                                           *)

tstate_steps == 737       \* clock states per quantum
FdcGroups    == 50        \* for (i = 0; i < 50; i++)
QuantaPerFdc == 10        \* for (j = 0; j < 10; j++)

\* Cycles reported by z180_dma (0: the DMA engine is idle or stalled) and
\* by Z180Execute, in multiples of 67 = 737 / 11.
DmaCycles == {0, 134}
CpuCycles == {201, 335}

\* Cycles used where the loop is explored with the signal handler: a DMA
\* burst of two quanta, so that a quantum can complete without a step, and
\* instructions of one quantum.
BurstCycles == {0, 1474}
InsnCycles  == {737}

\* Major ticks the model lets the loop start.
MaxMajor == 2

\* The recalc debt after a peripheral may have called recalc_interrupts().
Owe(rc) == IF rc /\ owed = "no" THEN "this" ELSE owed

\* Variant: Z180Execute is called whatever z180_dma returned.
Step_cpu_always(d, c, f, rc) ==
    /\ pc = "run"
    /\ states < tstate_steps
    /\ states' = states + d + c
    /\ step' = [dma |-> d, ran |-> TRUE, used |-> d + c]
    /\ acct' = [acct EXCEPT !.qused = @ + d + c, !.arg = 0, !.used = 0]
    /\ IFF' = f
    /\ int_recalc' = IF rc THEN 1 ELSE int_recalc
    /\ owed' = Owe(rc)
    /\ UNCHANGED <<busVars, ppiVars, retiVars, sdcard, ioVars, live_irq, fast,
                   emulator_done, pc, i, j, cnt, obs, sig_at, svc, released>>

\* z180_dma() returned d; Z180Execute() would return c and leave the
\* interrupt-enable flags at f; rc: a peripheral called recalc_interrupts().
Step(d, c, f, rc) ==
    /\ pc = "run"
    /\ states < tstate_steps
    /\ LET used == IF d = 0 THEN c ELSE d IN
         /\ states' = states + used
         /\ step' = [dma |-> d, ran |-> (d = 0), used |-> used]
         /\ acct' = [acct EXCEPT !.qused = @ + used, !.arg = 0, !.used = 0]
    /\ IFF' = IF d = 0 THEN f ELSE IFF
    /\ int_recalc' = IF rc THEN 1 ELSE int_recalc
    /\ owed' = Owe(rc)
    /\ UNCHANGED <<busVars, ppiVars, retiVars, sdcard, ioVars, live_irq, fast,
                   emulator_done, pc, i, j, cnt, obs, sig_at, svc, released>>

\* Variant: the inner for loop tests j <= 10.
Event_offbyone(rc) ==
    /\ pc = "run"
    /\ states >= tstate_steps
    /\ states' = states - tstate_steps
    /\ acct' = [acct EXCEPT !.arg = states, !.used = acct.qused, !.qused = 0,
                            !.surplus = states - tstate_steps]
    /\ cnt' = [cnt EXCEPT !.quanta = @ + 1]
    /\ j' = j + 1
    /\ pc' = IF j + 1 <= QuantaPerFdc THEN "run" ELSE "fdc"
    /\ int_recalc' = IF rc THEN 1 ELSE int_recalc
    /\ owed' = IF owed # "no" THEN "older" ELSE Owe(rc)
    /\ UNCHANGED <<busVars, ppiVars, retiVars, sdcard, ioVars, live_irq, IFF, fast,
                   emulator_done, i, step, obs, sig_at, svc, released>>

\* The quantum is complete: z180_event(io, states); states -= tstate_steps;
\* j++ and the test of the inner for loop.  acct records the value passed to
\* z180_event and the cycles the engines consumed in the quantum.
Event(rc) ==
    /\ pc = "run"
    /\ states >= tstate_steps
    /\ states' = states - tstate_steps
    /\ acct' = [acct EXCEPT !.arg = states, !.used = acct.qused, !.qused = 0,
                            !.surplus = states - tstate_steps]
    /\ cnt' = [cnt EXCEPT !.quanta = @ + 1]
    /\ j' = j + 1
    /\ pc' = IF j + 1 < QuantaPerFdc THEN "run" ELSE "fdc"
    /\ int_recalc' = IF rc THEN 1 ELSE int_recalc
    /\ owed' = IF owed # "no" THEN "older" ELSE Owe(rc)
    /\ UNCHANGED <<busVars, ppiVars, retiVars, sdcard, ioVars, live_irq, IFF, fast,
                   emulator_done, i, step, obs, sig_at, svc, released>>

\* Variant: the outer for loop also tests the termination flag.
FdcTick_break ==
    /\ pc = "fdc"
    /\ cnt' = [cnt EXCEPT !.fdc = @ + 1]
    /\ i' = i + 1
    /\ j' = IF i + 1 < FdcGroups THEN 0 ELSE j
    /\ pc' = IF i + 1 < FdcGroups /\ emulator_done = 0 THEN "run" ELSE "pace"
    /\ UNCHANGED <<busVars, ppiVars, retiVars, sdcard, ioVars, irqVars, fast,
                   emulator_done, states, step, obs, sig_at, svc, released,
                   acct>>

\* fdc_tick(fdc); i++ and the test of the outer for loop.
FdcTick ==
    /\ pc = "fdc"
    /\ cnt' = [cnt EXCEPT !.fdc = @ + 1]
    /\ i' = i + 1
    /\ j' = IF i + 1 < FdcGroups THEN 0 ELSE j
    /\ pc' = IF i + 1 < FdcGroups THEN "run" ELSE "pace"
    /\ UNCHANGED <<busVars, ppiVars, retiVars, sdcard, ioVars, irqVars, fast,
                   emulator_done, states, step, obs, sig_at, svc, released,
                   acct>>

\* if (!fast) nanosleep(&tc, NULL);
Pace ==
    /\ pc = "pace"
    /\ cnt' = [cnt EXCEPT !.major = @ + 1,
                          !.sleeps = IF fast = 0 THEN @ + 1 ELSE @]
    /\ pc' = "recalc"
    /\ UNCHANGED <<busVars, ppiVars, retiVars, sdcard, ioVars, irqVars, fast,
                   emulator_done, i, j, states, step, obs, sig_at, svc,
                   released, acct>>

\* No recalc service has run in this pass of the loop body.
NoService == [flag |-> FALSE, polled |-> FALSE, cleared |-> FALSE]

\* Variant: the service never calls poll_irq_event().
service_step_nopoll ==
    [flag    |-> int_recalc # 0,
     polled  |-> FALSE,
     cleared |-> int_recalc # 0 /\ IFF[1] = 0 /\ IFF[2] = 0]

\* Variant: the flag is cleared when IFF1 alone is clear.
service_step_iff1 ==
    [flag    |-> int_recalc # 0,
     polled  |-> int_recalc # 0 /\ live_irq = 0,
     cleared |-> int_recalc # 0 /\ IFF[1] = 0]

\* What the recalc service does in the current state: whether it finds the
\* flag set, calls poll_irq_event() and clears the flag.
service_step ==
    [flag    |-> int_recalc # 0,
     polled  |-> int_recalc # 0 /\ live_irq = 0,
     cleared |-> int_recalc # 0 /\ IFF[1] = 0 /\ IFF[2] = 0]

\* if (int_recalc) { if (!live_irq) poll_irq_event();
\*                   if (!(IFF1 | IFF2)) int_recalc = 0; }
Service ==
    /\ pc = "recalc"
    /\ svc' = service_step
    /\ int_recalc' = IF service_step.cleared THEN 0 ELSE int_recalc
    /\ owed' = IF service_step.polled THEN "no" ELSE owed
    /\ cnt' = [cnt EXCEPT !.services = @ + 1]
    /\ pc' = "head"
    /\ UNCHANGED <<busVars, ppiVars, retiVars, sdcard, ioVars, live_irq, IFF, fast,
                   emulator_done, i, j, states, step, obs, sig_at, released,
                   acct>>

\* while (!emulator_done) { int states = 0; ... for (i = 0; ...) for (j = 0; ...)
EnterTick ==
    /\ pc = "head"
    /\ emulator_done = 0
    /\ cnt.started < MaxMajor
    /\ states' = 0
    /\ i' = 0
    /\ j' = 0
    /\ cnt' = [cnt EXCEPT !.started = @ + 1]
    /\ pc' = "run"
    /\ svc' = NoService
    /\ UNCHANGED <<busVars, ppiVars, retiVars, sdcard, ioVars, irqVars, fast,
                   emulator_done, step, obs, sig_at, released, acct>>

\* The loop condition fails: control reaches fd_eject(drive_a).
LeaveLoop ==
    /\ pc = "head"
    /\ emulator_done # 0
    /\ pc' = "exit"
    /\ UNCHANGED <<busVars, ppiVars, retiVars, sdcard, ioVars, irqVars, fast,
                   emulator_done, i, j, states, step, cnt, obs, sig_at, svc,
                   released, acct>>

\* The devices main() releases after the loop: fd_eject(drive_a),
\* fd_eject(drive_b), fdc_destroy(&fdc), fd_destroy(&drive_a),
\* fd_destroy(&drive_b).
main_releases == {"drive_a", "drive_b", "fdc"}

\* fd_eject ... exit(0)
Shutdown ==
    /\ pc = "exit"
    /\ released' = main_releases
    /\ pc' = "halt"
    /\ UNCHANGED <<busVars, ppiVars, retiVars, sdcard, ioVars, irqVars, fast,
                   emulator_done, i, j, states, step, cnt, obs, sig_at, svc,
                   acct>>

\* cleanup(sig): the signal handler, which may run between any two steps.
cleanup ==
    /\ pc # "halt"
    /\ emulator_done' = 1
    /\ sig_at' = IF sig_at # "none" THEN sig_at
                 ELSE IF pc \in {"run", "fdc", "pace", "recalc"} THEN "tick"
                 ELSE "head"
    /\ UNCHANGED <<busVars, ppiVars, retiVars, sdcard, ioVars, irqVars, fast,
                   pc, i, j, states, step, cnt, obs, svc, released, acct>>

----------------------------------------------------------------------------
(* Initial states and specifications.                                      *)

\* The state when main() reaches its loop: RAM holds rand() bytes, ROM the
\* loaded image, the 82C55 outputs start high, Z180RESET cleared IFF1/IFF2.
InitWith(rams, roms, sds, fasts) ==
    /\ ram \in rams
    /\ rom \in roms
    /\ shadow = ram
    /\ port_a = 255 /\ port_b = 255 /\ port_c = 255 /\ port_ctl = 155
    /\ old_cs = 7
    /\ sdcard \in sds
    /\ rstate = 0
    /\ live_irq = 0
    /\ int_recalc = 0
    /\ IFF = <<0, 0>>
    /\ fast \in fasts
    /\ emulator_done = 0
    /\ pc = "head"
    /\ i = 0 /\ j = 0 /\ states = 0
    /\ obs = Observe("none", 0, 0, FALSE)
    /\ sd_ev = <<>>
    /\ cs_low = FALSE
    /\ reti_ev = 0
    /\ hist = <<>>
    /\ step = [dma |-> 0, ran |-> FALSE, used |-> 0]
    /\ cnt = [started |-> 0, quanta |-> 0, fdc |-> 0, major |-> 0,
              sleeps |-> 0, services |-> 0]
    /\ sig_at = "none"
    /\ trace = 0
    /\ io = [rw |-> "none", port |-> 0, claimed |-> FALSE]
    /\ owed = "no"
    /\ svc = NoService
    /\ released = {}
    /\ acct = [surplus |-> 0, qused |-> 0, arg |-> 0, used |-> 0]

OneRam == CHOOSE r \in RamImages : r[0] = 203
OneRom == CHOOSE r \in RomImages : r[0] = 237

\* Bus accesses by the DMA engine and the CPU with bank switching on port A.
InitMem == InitWith(RamImages, RomImages, {FALSE}, {0}) /\ ide = 0
NextMem ==
    \/ \E a \in Addrs : PhysRead(a)
    \/ \E a \in Addrs, v \in WriteBytes : PhysWrite(a, v)
    \/ \E v \in BankVals : ppi_write(0, v)
SpecMem == InitMem /\ [][NextMem]_vars

\* CPU reads through mem_read with bank switching on port A.
\* Addresses the disassembler reads.
DisAddrs == {0, 524287}
InitReti == InitWith(RamImages, RomImages, {FALSE}, {0}) /\ ide = 0
NextReti ==
    \/ \E m1 \in BOOLEAN, pa \in Addrs : mem_read(m1, pa)
    \/ \E pa \in DisAddrs : z80dis_byte(pa)
    \/ \E v \in BankVals : ppi_write(0, v)
SpecReti == InitReti /\ [][NextReti]_vars

\* Port accesses to the 82C55, with and without an SD card.
InitPPI == InitWith({OneRam}, {OneRom}, BOOLEAN, {0}) /\ ide = 0
NextPPI ==
    \/ \E w \in PpiWrites : ppi_write(w[1], w[2])
    \/ \E a \in 0 .. 3 : PpiRead(a)
SpecPPI == InitPPI /\ [][NextPPI]_vars

\* Port requests by the CPU, with and without a CF adapter.
InitIO == InitWith({OneRam}, {OneRom}, {TRUE}, {0}) /\ ide \in {0, 1}
NextIO ==
    \/ \E q \in IoReqs, e \in ExtVals : io_read(q[1], q[2], e)
    \/ \E q \in IoReqs, v \in IoVals, rc \in BOOLEAN :
          (q[1] \/ ~rc) /\ io_write(q[1], q[2], v, rc)
SpecIO == InitIO /\ [][NextIO]_vars

\* The execution loop, paced and unthrottled, with the signal handler.
InitSched == InitWith({OneRam}, {OneRom}, {FALSE}, {0, 1}) /\ ide = 0
NextSched ==
    \/ EnterTick
    \/ \E d \in BurstCycles, c \in InsnCycles : Step(d, c, <<0, 0>>, FALSE)
    \/ \E rc \in BOOLEAN : Event(rc)
    \/ FdcTick
    \/ Pace
    \/ Service
    \/ LeaveLoop
    \/ Shutdown
    \/ cleanup
SpecSched == InitSched /\ [][NextSched]_vars

\* The running loop with fine-grained cycle counts, for the accounting of
\* the quanta.
InitAcct == InitWith({OneRam}, {OneRom}, {FALSE}, {1}) /\ ide = 0
NextAcct ==
    \/ EnterTick
    \/ \E d \in DmaCycles, c \in CpuCycles : Step(d, c, <<0, 0>>, FALSE)
    \/ Event(FALSE)
    \/ FdcTick
    \/ Pace
    \/ Service
SpecAcct == InitAcct /\ [][NextAcct]_vars

\* The running loop with the interrupt state: instructions that change
\* IFF1/IFF2, peripherals that call recalc_interrupts() and the fetches of
\* an ED 4D pair through mem_read while an instruction executes.
IffVals   == {<<0, 0>>, <<0, 1>>, <<1, 1>>}
RetiAddrs == {0, 524287}                  \* ROM bytes ED and 4D
InitIrq == InitWith({OneRam}, {OneRom}, {FALSE}, {1}) /\ ide = 0
NextIrq ==
    \/ EnterTick
    \/ \E f \in IffVals, rc \in BOOLEAN : Step(0, tstate_steps, f, rc)
    \/ \E rc \in BOOLEAN : Event(rc)
    \/ FdcTick
    \/ Pace
    \/ Service
    \/ \E pa \in RetiAddrs : pc = "run" /\ mem_read(TRUE, pa)
SpecIrq == InitIrq /\ [][NextIrq]_vars

\* The loop and what follows it, with and without a CF adapter and an SD
\* card attached.
InitExit == InitWith({OneRam}, {OneRom}, BOOLEAN, {1}) /\ ide \in {0, 1}
NextExit ==
    \/ EnterTick
    \/ Step(0, tstate_steps, <<0, 0>>, FALSE)
    \/ Event(FALSE)
    \/ FdcTick
    \/ Pace
    \/ Service
    \/ LeaveLoop
    \/ Shutdown
    \/ cleanup
SpecExit == InitExit /\ [][NextExit]_vars

----------------------------------------------------------------------------
(* Properties.                                                             *)

TypeOK ==
    /\ port_a \in 0 .. 255 /\ port_b \in 0 .. 255
    /\ port_c \in 0 .. 255 /\ port_ctl \in 0 .. 255
    /\ rstate \in 0 .. 2
    /\ old_cs \in 0 .. 7
    /\ i \in 0 .. FdcGroups /\ j \in 0 .. QuantaPerFdc

\* An iteration of the inner while loop has just run.
IsStep == pc = "run" /\ states < tstate_steps /\ states' # states

\* C1: in every iteration of the step loop the CPU executes an instruction
\* if and only if z180_dma reported zero cycles, and the cycles added to the
\* accumulator are those of the one engine that ran; no iteration has both
\* a non-zero DMA count and a CPU instruction.
C1_DmaBeforeCpu ==
    [][IsStep => /\ step'.ran <=> (step'.dma = 0)
                 /\ ~(step'.dma # 0 /\ step'.ran)
                 /\ step'.dma # 0 => step'.used = step'.dma
                 /\ states' = states + step'.used]_vars

\* A DMA-only iteration and the completed quantum it ends.
C1_Witness == step.dma # 0 /\ ~step.ran /\ pc = "run" /\ states >= tstate_steps

IsED(e) == e.val = 237
Is4D(e) == e.val = 77

\* C2: from idle, ED then 4D delivered as two consecutive M1 reads fire the
\* RETI event exactly once, on the second read, and leave the detector idle.
C2_RetiOnce ==
    (/\ Len(hist) = 2
     /\ hist[1].rs0 = 0 /\ hist[1].m1 /\ IsED(hist[1])
     /\ hist[2].m1 /\ Is4D(hist[2]))
    => (~hist[1].fired /\ hist[2].fired /\ rstate = 0)

C2_Witness ==
    /\ Len(hist) = 2
    /\ hist[1].rs0 = 0 /\ hist[1].m1 /\ IsED(hist[1])
    /\ hist[2].m1 /\ Is4D(hist[2])
    /\ reti_ev = 1

\* ED was read as an opcode fetch and the next read returned 4D with M1 clear.
EDthenOperand4D ==
    /\ Len(hist) = 2
    /\ hist[1].m1 /\ IsED(hist[1])
    /\ ~hist[2].m1 /\ Is4D(hist[2])

\* C3 as stated: ED as an opcode fetch followed by 4D as a non-fetch read
\* does not fire the RETI event.
C3_Original == EDthenOperand4D => ~hist[2].fired

\* C3 amended: ED as an opcode fetch followed by 4D as a non-fetch read fires
\* the RETI event exactly when the detector was idle at the ED fetch (the 4D
\* test does not look at M1), and the detector is idle afterwards.
C3_OperandReadFires ==
    EDthenOperand4D => /\ hist[2].fired <=> (hist[1].rs0 = 0)
                       /\ ~hist[1].fired
                       /\ rstate = 0

C3_Witness == EDthenOperand4D /\ hist[1].rs0 = 0 /\ hist[2].fired /\ reti_ev = 1

ExtDisabled(addr) == Bit(addr, 19) = 1 /\ Bit(port_a, 2) = 0

\* C4: with port A bit 2 clear, a read of an address with bit 19 set returns
\* 0xFF and a write to it changes no RAM or ROM byte.
C4_ExtDisabledOpenBus ==
    /\ []((obs.op = "phys_read" /\ ExtDisabled(obs.addr)) => obs.val = 255)
    /\ [][(obs'.op = "phys_write" /\ ExtDisabled(obs'.addr))
            => (ram' = ram /\ rom' = rom)]_vars

\* A write of a new value was attempted on a disabled cell that holds a
\* byte other than 0xFF.
C4_Witness ==
    /\ obs.op = "phys_write" /\ ExtDisabled(obs.addr)
    /\ ram[obs.addr] # obs.val /\ ram[obs.addr] # 255

\* C5 as stated: a base-half read returns the ROM byte of that address when
\* port A bit 3 is set, and otherwise the value last written to that RAM
\* address while RAM was mapped.
C5_Original ==
    (obs.op = "phys_read" /\ Bit(obs.addr, 19) = 0)
    => obs.val = IF Bit(port_a, 3) = 1 THEN rom[obs.addr] ELSE shadow[obs.addr]

\* C6 as stated: with ROM enabled, a read of base-half address a returns the
\* byte at offset a of the 512 KiB image.
C6_Original ==
    (obs.op = "phys_read" /\ Bit(obs.addr, 19) = 0 /\ Bit(port_a, 3) = 1)
    => obs.val = rom[obs.addr]

\* C7: with an SD device attached, a PPI write that takes port C's low three
\* bits from non-zero to zero fires exactly one "lower", one that takes them
\* from zero to non-zero exactly one "raise", and any other write nothing.
C7_ChipSelectEvents ==
    [][(sdcard /\ obs'.op = "ppi_write") =>
        LET o == port_c % 8
            n == port_c' % 8
        IN  sd_ev' = IF o # 0 /\ n = 0 THEN <<"lower">>
                     ELSE IF o = 0 /\ n # 0 THEN <<"raise">>
                     ELSE <<>>]_vars

\* A bit-set command on the control address raised the chip select.
C7_Witness ==
    /\ sdcard /\ obs.op = "ppi_write" /\ obs.addr = 3 /\ obs.val < 128
    /\ sd_ev = <<"raise">> /\ port_c % 8 \notin {0, 7}

\* C8: a control write with bit 7 clear sets bit (val >> 1) & 7 of port C to
\* val & 1 and leaves the other bits of port C, ports A and B and the control
\* register alone; one with bit 7 set replaces the control register and
\* leaves ports A, B and C alone.
C8_ControlWrite ==
    [][(obs'.op = "ppi_write" /\ obs'.addr = 3) =>
        LET v == obs'.val
            n == (v \div 2) % 8
        IN  /\ port_a' = port_a
            /\ port_b' = port_b
            /\ IF Bit(v, 7) = 0
               THEN /\ Bit(port_c', n) = v % 2
                    /\ \A k \in (0 .. 7) \ {n} : Bit(port_c', k) = Bit(port_c, k)
                    /\ port_ctl' = port_ctl
               ELSE /\ port_ctl' = v
                    /\ port_c' = port_c]_vars

\* Value 0x09 has just set bit 4 of a port C whose other bits are not all set.
C8_Witness ==
    /\ obs.op = "ppi_write" /\ obs.addr = 3 /\ obs.val = 9
    /\ Bit(port_c, 4) = 1 /\ port_c # 255 /\ port_ctl # 155

\* C9: fdc_tick has been called once per 10 completed quanta, a major-tick
\* boundary has been passed once per 500 completed quanta (50 FDC ticks), and
\* the pacing sleep has been made once per boundary, or never when fast.
C9_TickAccounting ==
    /\ pc # "fdc" => cnt.fdc = cnt.quanta \div QuantaPerFdc
    /\ pc = "fdc" => cnt.quanta = QuantaPerFdc * (cnt.fdc + 1)
    /\ pc \notin {"fdc", "pace"}
          => /\ cnt.major = cnt.quanta \div (QuantaPerFdc * FdcGroups)
             /\ cnt.major = cnt.fdc \div FdcGroups
    /\ pc = "pace" => /\ cnt.fdc = FdcGroups * (cnt.major + 1)
                      /\ cnt.quanta = QuantaPerFdc * FdcGroups * (cnt.major + 1)
    /\ cnt.sleeps = IF fast = 0 THEN cnt.major ELSE 0

\* Two major ticks have been paced.
C9_Witness == cnt.major = 2 /\ cnt.sleeps = 2 /\ cnt.quanta = 1000 /\ cnt.fdc = 100

\* C10: the loop is left only from its head and only with the flag set; once
\* the flag is set no further major tick is started, the loop is left at the
\* next arrival at the head, and on leaving every started major tick has
\* completed its 500 quanta, 50 FDC ticks, pacing step and recalc service.
C10_ExitAtMajorBoundary ==
    /\ [][(pc' = "exit" /\ pc # "exit") => (pc = "head" /\ emulator_done # 0)]_vars
    /\ [][(cnt'.started # cnt.started) => emulator_done = 0]_vars
    /\ [][emulator_done # 0 => emulator_done' # 0]_vars
    /\ [][(pc = "head" /\ emulator_done # 0) => pc' \in {"head", "exit"}]_vars
    /\ [](pc \in {"exit", "halt"} =>
            /\ emulator_done # 0
            /\ cnt.quanta = QuantaPerFdc * FdcGroups * cnt.started
            /\ cnt.fdc = FdcGroups * cnt.started
            /\ cnt.major = cnt.started
            /\ cnt.services = cnt.started
            /\ cnt.sleeps = IF fast = 0 THEN cnt.started ELSE 0)

\* The signal arrived inside a major tick and the loop has been left.
C10_Witness ==
    /\ pc = "halt" /\ sig_at = "tick" /\ cnt.started = 1 /\ cnt.quanta = 500

FdcWindow == 112 .. 119                   \* 0x70 .. 0x77
PpiWindow == 120 .. 127                   \* 0x78 .. 0x7F
IdeWindow == 16 .. 23                     \* 0x10 .. 0x17

\* C11 as stated: every unclaimed request whose low 8 address bits lie in
\* 0x70..0x77, read or write, reaches the floppy handler with sub-address
\* (address AND 7).
C11_Original ==
    (io.rw # "none" /\ ~io.claimed /\ (io.port % 256) \in FdcWindow)
    => /\ obs.op = IF io.rw = "r" THEN "fdc_read" ELSE "fdc_write"
       /\ obs.addr = io.port % 8

\* No handler is decoded for the masked address a.
Unmapped(a) ==
    /\ a \notin FdcWindow /\ a \notin PpiWindow /\ a \notin {13, 253, 254}
    /\ ~(ide = 1 /\ a \in IdeWindow)

\* C12: an unclaimed read of an unmapped port returns 0xFF and an unclaimed
\* write to one leaves the PPI registers, the chip-select cache, the trace
\* level and memory unchanged; with ide = 0 this covers 0x10..0x17.
C12_UnmappedPorts ==
    /\ []((io.rw = "r" /\ ~io.claimed /\ Unmapped(io.port % 256))
            => obs.val = 255)
    /\ [][(io'.rw = "w" /\ ~io'.claimed /\ Unmapped(io'.port % 256))
            => UNCHANGED <<port_a, port_b, port_c, port_ctl, old_cs, cs_low, trace,
                           ram, rom>>]_vars

\* A write to 0x10 without a CF adapter, after the trace level and port C
\* have been changed.
C12_Witness ==
    /\ io.rw = "w" /\ ~io.claimed /\ io.port = 16 /\ ide = 0
    /\ obs.op = "unknown_write" /\ trace # 0 /\ port_c # 255


----------------------------------------------------------------------------
\* C13 (as stated): whenever a peripheral sets the recalc flag and no
\* interrupt is live, the controller is re-polled no later than the end of
\* the quantum in which the flag was set: no poll is still owed for a flag
\* set in a quantum that has already completed.
C13_Original == live_irq = 0 => owed # "older"

\* C13 (amended): the recalc flag is examined once per major tick, at the
\* service step after the pacing step.  That step polls the controller
\* exactly when the flag is set and no interrupt is live; an owed poll is
\* discharged only there, so a flag set in one quantum stays unserviced
\* through the remaining quanta of the major tick, and there is one service
\* step per 500 quanta.
C13_ServicePerMajorTick ==
    [][ /\ (pc = "recalc" /\ pc' = "head") =>
              /\ svc'.polled <=> (int_recalc # 0 /\ live_irq = 0)
              /\ svc'.polled => owed' = "no"
        /\ (owed # "no" /\ owed' = "no") => (pc = "recalc" /\ svc'.polled)
        /\ (owed' # "no") => int_recalc' # 0
        /\ cnt'.services = cnt'.major - (IF pc' = "recalc" THEN 1 ELSE 0)
        /\ (pc' = "head") =>
              cnt'.quanta = cnt'.services * FdcGroups * QuantaPerFdc ]_vars
C13_Witness ==
    /\ pc = "head" /\ svc.polled /\ owed = "no"
    /\ cnt.services = 2 /\ cnt.quanta = 1000


----------------------------------------------------------------------------
\* The step is the recalc service, and it found the flag set.
ServesFlag == pc = "recalc" /\ pc' = "head" /\ int_recalc # 0

\* The step is a mem_read that called reti_event().
RetiFires == hist' # hist /\ hist'[Len(hist')].fired

\* C14: the recalc flag, once set, is cleared only by the recalc service
\* step, and that step clears it if and only if IFF1 and IFF2 are both clear;
\* while either is set the flag stays set and the service step polls the
\* controller again; a RETI event or a poll never clears it.
C14_FlagClearedByService ==
    [][ /\ (int_recalc # 0 /\ int_recalc' = 0) =>
              (pc = "recalc" /\ IFF[1] = 0 /\ IFF[2] = 0)
        /\ ServesFlag =>
              /\ (int_recalc' = 0) <=> (IFF[1] = 0 /\ IFF[2] = 0)
              /\ svc'.cleared <=> (int_recalc' = 0)
              /\ svc'.polled
        /\ RetiFires => int_recalc' = int_recalc ]_vars
C14_Witness ==
    /\ pc = "head" /\ cnt.services = 2
    /\ svc.flag /\ svc.polled /\ ~svc.cleared
    /\ int_recalc # 0 /\ IFF = <<0, 1>>


----------------------------------------------------------------------------
\* The devices attached at startup: the two floppy drives and the floppy
\* controller always, the CF adapter when ide = 1, the SD card when sdcard
\* is not NULL.
attached ==
    {"drive_a", "drive_b", "fdc"}
        \cup (IF ide = 1 THEN {"ide0"} ELSE {})
        \cup (IF sdcard THEN {"sdcard"} ELSE {})

\* C15 (as stated): when the loop has exited on the termination flag and the
\* process exits, every attached device has been released: both floppy
\* drives, the floppy controller, the IDE/CF device and the SD card when
\* attached.
C15_Original == pc = "halt" => attached \subseteq released


----------------------------------------------------------------------------
\* A quantum is about to start: at least one quantum has completed and no
\* step of the next one has run.
QuantumStart == pc = "run" /\ cnt.quanta > 0 /\ acct.qused = 0

\* C16 (as stated): the surplus left when a quantum completes is the
\* starting accumulator value of the next quantum, for every pair of
\* consecutive quanta, including pairs that straddle an FDC-tick or a
\* major-tick boundary.
C16_Original == QuantumStart => states = acct.surplus

\* z180_event has just been called.
Notified == acct.arg # 0

\* C17 (as stated): the elapsed-state count passed to the I/O controller at
\* the end of each quantum equals the number of cycles the DMA engine and
\* the CPU consumed during that quantum.
C17_Original == Notified => acct.arg = acct.used


----------------------------------------------------------------------------
\* The detector state a CPU read e leaves behind, according to the claim.
AfterRead(e) ==
    IF e.m1 /\ e.val \in {221, 253, 203} THEN 2
    ELSE IF e.m1 /\ IsED(e) /\ e.rs0 = 0 THEN 1
    ELSE 0

\* The recorded CPU reads agree with the claim's description.
DetectorHistory ==
    /\ \A k \in 1 .. Len(hist) :
          /\ hist[k].fired <=> (Is4D(hist[k]) /\ hist[k].rs0 = 1)
          /\ (IF k = Len(hist) THEN rstate ELSE hist[k + 1].rs0)
                = AfterRead(hist[k])
    /\ (/\ Len(hist) = 2 /\ hist[1].rs0 = 2
        /\ hist[1].m1 /\ IsED(hist[1]) /\ Is4D(hist[2]))
          => (~hist[1].fired /\ ~hist[2].fired)

\* The step is a read by the disassembler.
DisRead == obs'.op = "dis_read" /\ obs' # obs

\* C18: over any sequence of CPU memory reads the RETI event fires on a
\* read iff the byte is 4D and the detector has seen ED; the detector is
\* armed only by an opcode fetch of ED while idle; an opcode fetch of DD, FD
\* or CB puts it in the suppress state, in which a following ED fetch does
\* not arm it (DD, ED, 4D fires nothing); every other read returns it to
\* idle; reads by the disassembler never change the detector state.
C18_DetectorTransitions ==
    [][ /\ DetectorHistory'
        /\ DisRead => (rstate' = rstate /\ hist' = hist /\ reti_ev' = 0) ]_vars
C18_Witness ==
    /\ Len(hist) = 2 /\ hist[1].rs0 = 2
    /\ hist[1].m1 /\ IsED(hist[1]) /\ Is4D(hist[2]) /\ ~hist[2].fired
    /\ rstate = 0 /\ obs.op = "dis_read"


----------------------------------------------------------------------------
\* C19: live_irq is 0 in every reachable state, so every recalc service
\* step that finds the flag set calls poll_irq_event(), and the clearing of
\* live_irq by reti_event() never changes it.
C19_LiveIrqNeverSet ==
    [][ /\ live_irq = 0 /\ live_irq' = 0
        /\ ServesFlag => (svc'.flag /\ svc'.polled /\ owed' = "no")
        /\ RetiFires => (live_irq' = live_irq /\ owed' = "no") ]_vars
C19_Witness ==
    /\ pc = "head" /\ svc.flag /\ svc.polled
    /\ reti_ev = 1 /\ live_irq = 0


----------------------------------------------------------------------------
\* C20: with an SD device attached from startup, after every PPI write the
\* chip-select cache equals port C's low three bits and the SD chip-select
\* line is asserted exactly when those bits are zero; lower and raise events
\* strictly alternate, starting with a lower, from the initial deselected
\* state (port C = 0xFF, cache 7).
C20_ChipSelectCache ==
    [][ sdcard =>
          /\ old_cs = port_c % 8 /\ old_cs' = port_c' % 8
          /\ cs_low <=> (port_c % 8 = 0)
          /\ cs_low' <=> (port_c' % 8 = 0)
          /\ (cs_low' # cs_low) <=> (sd_ev' # <<>> /\ obs'.op = "ppi_write")
          /\ (cs_low' /\ ~cs_low) <=> (sd_ev' = <<"lower">>)
          /\ (~cs_low' /\ cs_low) <=> (sd_ev' = <<"raise">>) ]_vars
C20_Witness ==
    /\ sdcard /\ obs.op = "ppi_write" /\ obs.addr = 2 /\ obs.val = 5
    /\ sd_ev = <<"raise">> /\ ~cs_low /\ old_cs = 5
====
